---- MODULE Spec2Model ----
(***************************************************************************)
(* Model of the RTL patch lifecycle of src/patch-rtl.js: the class         *)
(* resolver (extractClassMap), the fragment synthesis (generateRtlCss),    *)
(* the excision (removePatchContent) and the three operations applyPatch,  *)
(* revertPatch and checkPatch acting on one target file and its backup.    *)
(*                                                                         *)
(* A file's content is a sequence of lexical tokens of the stylesheet:     *)
(*   <<"nl">>             a newline character                              *)
(*   <<"mark", m>>        one of the two marker comments                   *)
(*   <<"cls", key, hash>> the class selector  .key_hash                    *)
(*   <<"attr", key>>      the attribute selector  [class*="key_"]          *)
(*   <<"txt", c, rest>>   any other text: first character c, then rest;    *)
(*                        c is never alphanumeric and the text holds no    *)
(*                        marker and no  .key_  of a known key             *)
(* String search, concatenation and substring of the source are the same   *)
(* operations on these sequences.  Indexes are 1-based; 0 stands for the   *)
(* -1 of indexOf.                                                          *)
(***************************************************************************)
EXTENDS Naturals, Sequences, FiniteSets, TLC

\* Most rules in a stylesheet the host writes.
MaxRules == 1

\* Longest content, in tokens, handed to a function called on its own.
MaxTokens == 4

---------------------------------------------------------------------------
(* Tokens *)

nl == <<"nl">>

PATCH_START == <<"mark", "START">>

PATCH_END == <<"mark", "END">>

Cls(key, hash) == <<"cls", key, hash>>

Attr(key) == <<"attr", key>>

Txt(c, rest) == <<"txt", c, rest>>

\* First character of a token's text.
FirstChar(tok) ==
  CASE tok[1] = "nl"   -> "\n"
    [] tok[1] = "mark" -> "/"
    [] tok[1] = "cls"  -> "."
    [] tok[1] = "attr" -> "["
    [] OTHER           -> tok[2]

\* The lookahead class [\s{.,:\[>~+] of the resolver's pattern.
BoundaryChars == {" ", "\n", "\t", "{", ".", ",", ":", "[", ">", "~", "+"}

\* The fixed key list of the resolver, in its order.
patterns ==
  << "message", "messagesContainer", "chatContainer", "userMessageContainer",
     "userMessage", "timelineMessage", "emptyStateContent", "emptyStateText",
     "highlightedMessage", "slashCommandMessage", "slashCommandResultMessage",
     "interruptedMessage", "metaMessage", "progressContent" >>

Range(s) == {s[i] : i \in DOMAIN s}

---------------------------------------------------------------------------
(* String helpers *)

\* String.prototype.indexOf for a one-token needle: first index, 0 if none.
IndexOf(s, tok) ==
  IF \E i \in 1..Len(s) : s[i] = tok
  THEN CHOOSE i \in 1..Len(s) : s[i] = tok /\ \A j \in 1..(i-1) : s[j] # tok
  ELSE 0

\* String.prototype.includes.
Includes(s, tok) == \E i \in 1..Len(s) : s[i] = tok

\* Number of occurrences of a token.
Count(s, tok) == Cardinality({i \in 1..Len(s) : s[i] = tok})

\* .replace(/\n+$/, ""): drops every trailing newline.
StripTrailingNewlines(s) ==
  LET keep == {i \in 0..Len(s) : \A j \in (i+1)..Len(s) : s[j] = nl}
      n    == CHOOSE i \in keep : \A k \in keep : i <= k
  IN  SubSeq(s, 1, n)

\* Array.prototype.join("\n") of a sequence of lines.
RECURSIVE JoinLines(_)
JoinLines(lines) ==
  IF Len(lines) = 0 THEN << >>
  ELSE IF Len(lines) = 1 THEN lines[1]
  ELSE LET half == Len(lines) \div 2
       IN  JoinLines(SubSeq(lines, 1, half)) \o <<nl>>
             \o JoinLines(SubSeq(lines, half + 1, Len(lines)))

---------------------------------------------------------------------------
(* Class resolver *)

\* Variant: the pattern lacks the "_" after the key, so that a class whose
\* name merely starts with the key matches too.
MatchesAt_prefix(cssContent, name, i) ==
  /\ cssContent[i][1] = "cls"
  /\ \/ cssContent[i][2] = name
     \/ <<name, cssContent[i][2]>> \in
          { <<"message", "messagesContainer">>,
            <<"userMessage", "userMessageContainer">> }
  /\ i < Len(cssContent)
  /\ FirstChar(cssContent[i+1]) \in BoundaryChars

\* One match of  \.name_([A-Za-z0-9]+)(?=[\s{.,:\[>~+])  at position i: the
\* class token of that key, followed by a token starting with a boundary
\* character (the end of the content is no boundary).
MatchesAt(cssContent, name, i) ==
  /\ cssContent[i][1] = "cls"
  /\ cssContent[i][2] = name
  /\ i < Len(cssContent)
  /\ FirstChar(cssContent[i+1]) \in BoundaryChars

\* Variant: the last match is taken.
FirstMatch_last(cssContent, name) ==
  IF \E i \in 1..Len(cssContent) : MatchesAt(cssContent, name, i)
  THEN CHOOSE i \in 1..Len(cssContent) :
         /\ MatchesAt(cssContent, name, i)
         /\ \A j \in (i+1)..Len(cssContent) : ~MatchesAt(cssContent, name, j)
  ELSE 0

\* regex.exec: the position of the first match, 0 if there is none.
FirstMatch(cssContent, name) ==
  IF \E i \in 1..Len(cssContent) : MatchesAt(cssContent, name, i)
  THEN CHOOSE i \in 1..Len(cssContent) :
         /\ MatchesAt(cssContent, name, i)
         /\ \A j \in 1..(i-1) : ~MatchesAt(cssContent, name, j)
  ELSE 0

\* The mapping semantic name -> hash; a key without a match is absent.
extractClassMap(cssContent) ==
  [name \in {n \in Range(patterns) : FirstMatch(cssContent, n) # 0} |->
     cssContent[FirstMatch(cssContent, name)][3]]

---------------------------------------------------------------------------
(* Fragment synthesis *)

\* Variant: one hash, that of message, is used for every key.
Selector_globalHash(classMap, key) ==
  IF "message" \in DOMAIN classMap
  THEN Cls(key, classMap["message"]) ELSE Attr(key)

\* Variant: the class selector is written whether or not the key is mapped.
Selector_exact(classMap, key) ==
  Cls(key, IF key \in DOMAIN classMap THEN classMap[key] ELSE "undefined")

\* classMap.key ? `.key_${classMap.key}` : '[class*="key_"]'
Selector(classMap, key) ==
  IF key \in DOMAIN classMap THEN Cls(key, classMap[key]) ELSE Attr(key)

\* A line of literal text.
Lit(c, rest) == << Txt(c, rest) >>

generateRtlCss(classMap) ==
  LET messageClass          == Selector(classMap, "message")
      userMsgClass          == Selector(classMap, "userMessage")
      userMsgContainerClass == Selector(classMap, "userMessageContainer")
      timelineClass         == Selector(classMap, "timelineMessage")
      slashCmdClass         == Selector(classMap, "slashCommandMessage")
      slashCmdResultClass   == Selector(classMap, "slashCommandResultMessage")
      interruptedClass      == Selector(classMap, "interruptedMessage")
      progressClass         == Selector(classMap, "progressContent")
      plaintext == Lit(" ", " unicode-bidi: plaintext;")
      start     == Lit(" ", " text-align: start;")
      close     == Lit("}", "")
      unsetLeft == Lit(" ", " left: unset;")
      testid(rest) == Lit("[", "data-testid=\"assistant-message\"]" \o rest)
      lines ==
        << <<PATCH_START>>,
           << >>,
           Lit("/", "*"),
           Lit(" ", "* RTL (Right-to-Left) text support for Claude Code"),
           Lit(" ", "* Supports Hebrew, Arabic, Persian, Urdu, and other RTL scripts."),
           Lit(" ", "* Uses CSS unicode-bidi: plaintext for automatic direction detection"),
           Lit(" ", "* per-paragraph, so mixed LTR/RTL content renders correctly."),
           Lit(" ", "*/"),
           << >>,
           Lit("/", "* Auto-detect text direction on all message text content */"),
           <<messageClass>> \o Lit(",", ""),
           <<userMsgClass>> \o Lit(",", ""),
           <<userMsgContainerClass>> \o Lit(",", ""),
           <<timelineClass>> \o Lit(",", ""),
           <<slashCmdClass>> \o Lit(",", ""),
           <<slashCmdResultClass>> \o Lit(",", ""),
           <<interruptedClass>> \o Lit(",", ""),
           <<progressClass>> \o Lit(",", ""),
           testid(" {"),
           plaintext,
           start,
           close,
           << >>,
           Lit("/", "* Fix user message container alignment for RTL content */"),
           <<messageClass, userMsgContainerClass>> \o Lit(" ", "{"),
           start,
           close,
           << >>,
           Lit("/", "* Ensure paragraphs and inline text respect auto-direction */"),
           <<messageClass>> \o Lit(" ", "p,"),
           <<messageClass>> \o Lit(" ", "li,"),
           <<messageClass>> \o Lit(" ", "span,"),
           <<messageClass>> \o Lit(" ", "div,"),
           testid(" p,"),
           testid(" li,"),
           testid(" span,"),
           testid(" div {"),
           plaintext,
           start,
           close,
           << >>,
           Lit("/", "* Preserve code blocks as LTR (code is always LTR) */"),
           <<messageClass>> \o Lit(" ", "pre,"),
           <<messageClass>> \o Lit(" ", "code,"),
           testid(" pre,"),
           testid(" code {"),
           Lit(" ", " unicode-bidi: normal;"),
           Lit(" ", " direction: ltr;"),
           Lit(" ", " text-align: left;"),
           close,
           << >>,
           Lit("/", "* Timeline dot position: use logical properties so dot stays correct in RTL */"),
           <<timelineClass>> \o Lit(" ", "{"),
           Lit(" ", " padding-inline-start: 30px;"),
           Lit(" ", " padding-left: unset;"),
           close,
           << >>,
           <<timelineClass>> \o Lit(":", ":before {"),
           Lit(" ", " inset-inline-start: 9px;"),
           unsetLeft,
           close,
           << >>,
           <<timelineClass>> \o Lit(":", ":after {"),
           Lit(" ", " inset-inline-start: 12px;"),
           unsetLeft,
           close,
           << >>,
           Lit("/", "* Input area RTL support */"),
           Lit("[", "class*=\"inputContainer_\"] textarea,"),
           Lit("[", "class*=\"inputContainer_\"] [contenteditable] {"),
           plaintext,
           start,
           close,
           << >>,
           <<PATCH_END>> >>
  IN  JoinLines(lines)

---------------------------------------------------------------------------
(* Fragment excision *)

\* Variant: nothing is excised.
removePatchContent_noop(cssContent) == cssContent

\* Variant: the cut ends before the end marker instead of after it.
removePatchContent_keepEnd(cssContent) ==
  LET startIdx == IndexOf(cssContent, PATCH_START)
      endIdx   == IndexOf(cssContent, PATCH_END)
  IN  IF startIdx = 0 \/ endIdx = 0 THEN cssContent
      ELSE StripTrailingNewlines(SubSeq(cssContent, 1, startIdx - 1))
             \o SubSeq(cssContent, endIdx, Len(cssContent))

\* Variant: only the start marker is looked for before cutting.
removePatchContent_fromStart(cssContent) ==
  LET startIdx == IndexOf(cssContent, PATCH_START)
      endIdx   == IndexOf(cssContent, PATCH_END)
  IN  IF startIdx = 0 THEN cssContent
      ELSE StripTrailingNewlines(SubSeq(cssContent, 1, startIdx - 1))
             \o SubSeq(cssContent, endIdx + 1, Len(cssContent))

removePatchContent(cssContent) ==
  LET startIdx == IndexOf(cssContent, PATCH_START)
      endIdx   == IndexOf(cssContent, PATCH_END)
  IN  IF startIdx = 0 \/ endIdx = 0 THEN cssContent
      ELSE LET beforePatch ==
                 StripTrailingNewlines(SubSeq(cssContent, 1, startIdx - 1))
               afterPatch ==
                 SubSeq(cssContent, endIdx + 1, Len(cssContent))
           IN  beforePatch \o afterPatch

---------------------------------------------------------------------------
(* Files *)

\* fs.existsSync(path) is false.
Absent == [exists |-> FALSE, content |-> << >>]

\* A file holding the given content.
File(c) == [exists |-> TRUE, content |-> c]

\* All sequences over S of length at most n.
SeqsUpTo(S, n) == UNION {[1..k -> S] : k \in 0..n}

\* Concatenation of a sequence of token sequences.
RECURSIVE Concat(_)
Concat(parts) ==
  IF Len(parts) = 0 THEN << >> ELSE parts[1] \o Concat(Tail(parts))

\* A rule of the host's build:  .key_hash{color:red}
Rule(key, hash) == << Cls(key, hash), Txt("{", "color:red}") >>

\* The rules the host's builds hold; a new build changes the hash.
HostRules ==
  { Rule("message", "A"), Rule("message", "B"), Rule("userMessage", "B") }

\* How a stylesheet of the host ends: with or without a final newline.
HostEndings == { << >>, <<nl>> }

\* Legitimate stylesheet content: some rules and an ending.  It never holds
\* a marker.
HostContents ==
  { Concat(rules) \o ending :
      rules \in SeqsUpTo(HostRules, MaxRules), ending \in HostEndings }

---------------------------------------------------------------------------
(* The three operations, as functions of the two files.  Each returns the
   object the source returns, together with the files as it leaves them. *)

\* Variant: the excision is written to the file before the mapping is
\* resolved.
applyPatch_commitExcision(target, backup) ==
  IF ~target.exists
  THEN [success |-> FALSE, error |-> "CSS file not found", classMap |-> << >>,
        target |-> target, backup |-> backup]
  ELSE
    LET read       == target.content
        cssContent == IF Includes(read, PATCH_START)
                      THEN removePatchContent(read) ELSE read
        classMap   == extractClassMap(cssContent)
    IN  IF "message" \notin DOMAIN classMap
        THEN [success |-> FALSE, error |-> "Could not extract CSS class names",
              classMap |-> << >>, target |-> File(cssContent), backup |-> backup]
        ELSE [success |-> TRUE, error |-> "", classMap |-> classMap,
              target |-> File(cssContent \o <<nl>> \o generateRtlCss(classMap)),
              backup |-> IF ~backup.exists THEN File(cssContent) ELSE backup]

\* Variant: the backup is written without looking whether one exists.
applyPatch_overwriteBackup(target, backup) ==
  IF ~target.exists
  THEN [success |-> FALSE, error |-> "CSS file not found", classMap |-> << >>,
        target |-> target, backup |-> backup]
  ELSE
    LET read       == target.content
        cssContent == IF Includes(read, PATCH_START)
                      THEN removePatchContent(read) ELSE read
        classMap   == extractClassMap(cssContent)
    IN  IF "message" \notin DOMAIN classMap
        THEN [success |-> FALSE, error |-> "Could not extract CSS class names",
              classMap |-> << >>, target |-> target, backup |-> backup]
        ELSE [success |-> TRUE, error |-> "", classMap |-> classMap,
              target |-> File(cssContent \o <<nl>> \o generateRtlCss(classMap)),
              backup |-> File(cssContent)]

\* Variant: the mapping is resolved from the file as read, old fragment
\* included.
applyPatch_resolveFirst(target, backup) ==
  IF ~target.exists
  THEN [success |-> FALSE, error |-> "CSS file not found", classMap |-> << >>,
        target |-> target, backup |-> backup]
  ELSE
    LET read       == target.content
        cssContent == IF Includes(read, PATCH_START)
                      THEN removePatchContent(read) ELSE read
        classMap   == extractClassMap(read)
    IN  IF "message" \notin DOMAIN classMap
        THEN [success |-> FALSE, error |-> "Could not extract CSS class names",
              classMap |-> << >>, target |-> target, backup |-> backup]
        ELSE
          LET rtlCss         == generateRtlCss(classMap)
              patchedContent == cssContent \o <<nl>> \o rtlCss
          IN  [success |-> TRUE, error |-> "", classMap |-> classMap,
               target |-> File(patchedContent),
               backup |-> IF ~backup.exists THEN File(cssContent) ELSE backup]

applyPatch(target, backup) ==
  IF ~target.exists
  THEN [success |-> FALSE, error |-> "CSS file not found", classMap |-> << >>,
        target |-> target, backup |-> backup]
  ELSE
    LET read       == target.content
        cssContent == IF Includes(read, PATCH_START)
                      THEN removePatchContent(read) ELSE read
        classMap   == extractClassMap(cssContent)
    IN  IF "message" \notin DOMAIN classMap
        THEN [success |-> FALSE, error |-> "Could not extract CSS class names",
              classMap |-> << >>, target |-> target, backup |-> backup]
        ELSE
          LET rtlCss         == generateRtlCss(classMap)
              patchedContent == cssContent \o <<nl>> \o rtlCss
          IN  [success |-> TRUE, error |-> "", classMap |-> classMap,
               target |-> File(patchedContent),
               backup |-> IF ~backup.exists THEN File(cssContent) ELSE backup]

\* Variant: the backup is restored but not deleted.
revertPatch_keepBackup(target, backup) ==
  IF ~target.exists
  THEN [success |-> FALSE, method |-> "", error |-> "CSS file not found",
        target |-> target, backup |-> backup]
  ELSE IF backup.exists
  THEN [success |-> TRUE, method |-> "backup", error |-> "",
        target |-> File(backup.content), backup |-> backup]
  ELSE IF Includes(target.content, PATCH_START)
  THEN [success |-> TRUE, method |-> "strip", error |-> "",
        target |-> File(removePatchContent(target.content)),
        backup |-> backup]
  ELSE [success |-> FALSE, method |-> "", error |-> "No patch found to revert",
        target |-> target, backup |-> backup]

\* Variant: the markers are looked for before the backup.
revertPatch_stripFirst(target, backup) ==
  IF ~target.exists
  THEN [success |-> FALSE, method |-> "", error |-> "CSS file not found",
        target |-> target, backup |-> backup]
  ELSE IF Includes(target.content, PATCH_START)
  THEN [success |-> TRUE, method |-> "strip", error |-> "",
        target |-> File(removePatchContent(target.content)),
        backup |-> backup]
  ELSE IF backup.exists
  THEN [success |-> TRUE, method |-> "backup", error |-> "",
        target |-> File(backup.content), backup |-> Absent]
  ELSE [success |-> FALSE, method |-> "", error |-> "No patch found to revert",
        target |-> target, backup |-> backup]

\* Variant: without a backup the file is stripped whether or not it holds
\* the start marker.
revertPatch_alwaysStrip(target, backup) ==
  IF ~target.exists
  THEN [success |-> FALSE, method |-> "", error |-> "CSS file not found",
        target |-> target, backup |-> backup]
  ELSE IF backup.exists
  THEN [success |-> TRUE, method |-> "backup", error |-> "",
        target |-> File(backup.content), backup |-> Absent]
  ELSE [success |-> TRUE, method |-> "strip", error |-> "",
        target |-> File(removePatchContent(target.content)),
        backup |-> backup]

\* Variant: without a backup the file is written back as it was read.
revertPatch_noStrip(target, backup) ==
  IF ~target.exists
  THEN [success |-> FALSE, method |-> "", error |-> "CSS file not found",
        target |-> target, backup |-> backup]
  ELSE IF backup.exists
  THEN [success |-> TRUE, method |-> "backup", error |-> "",
        target |-> File(backup.content), backup |-> Absent]
  ELSE IF Includes(target.content, PATCH_START)
  THEN [success |-> TRUE, method |-> "strip", error |-> "",
        target |-> File(target.content), backup |-> backup]
  ELSE [success |-> FALSE, method |-> "", error |-> "No patch found to revert",
        target |-> target, backup |-> backup]

revertPatch(target, backup) ==
  IF ~target.exists
  THEN [success |-> FALSE, method |-> "", error |-> "CSS file not found",
        target |-> target, backup |-> backup]
  ELSE IF backup.exists
  THEN LET original == backup.content
       IN  [success |-> TRUE, method |-> "backup", error |-> "",
            target |-> File(original), backup |-> Absent]
  ELSE IF Includes(target.content, PATCH_START)
  THEN [success |-> TRUE, method |-> "strip", error |-> "",
        target |-> File(removePatchContent(target.content)),
        backup |-> backup]
  ELSE [success |-> FALSE, method |-> "", error |-> "No patch found to revert",
        target |-> target, backup |-> backup]

\* Variant: the file's existence is taken for the answer.
checkPatch_exists(target) == target.exists

checkPatch(target) ==
  IF ~target.exists THEN FALSE
  ELSE Includes(target.content, PATCH_START)

---------------------------------------------------------------------------
(* The operations step by step, with a file-system call that may throw *)

\* The file-system calls of one operation that can throw: the first
\* readFileSync, the writeFileSync of the backup, the writeFileSync of the
\* target, the unlinkSync of the backup.
Faults == { "none", "read", "writeBackup", "writeTarget", "unlink" }

\* What a writeFileSync that throws leaves behind: the file as it was (the
\* open failed), an empty file (opened and truncated), or all but the end
\* of the data.
Cuts == { "kept", "empty", "partial" }

FailedWrite(file, data, cut) ==
  IF cut = "kept" THEN file
  ELSE IF cut = "empty" \/ Len(data) = 0 THEN File(<< >>)
  ELSE File(SubSeq(data, 1, Len(data) - 1))

\* A writeFileSync(path, data) that was issued.
Write(path, data) == [path |-> path, data |-> data]

\* What one call leaves: how it ended ("returned" or "threw"), the step it
\* failed at ("none" when it succeeded), the files, and the writes it
\* issued, in order.
Ended(op, outcome, failedAt, target, backup, writes) ==
  [op |-> op, outcome |-> outcome, success |-> failedAt = "none",
   failedAt |-> failedAt, target |-> target, backup |-> backup,
   writes |-> writes]

\* Variant: the target is written before the backup.
applyPatchFs_targetFirst(target, backup, fault, cut) ==
  IF ~target.exists
  THEN Ended("applyPatch", "returned", "exists", target, backup, << >>)
  ELSE IF fault = "read"
  THEN Ended("applyPatch", "threw", "read", target, backup, << >>)
  ELSE
    LET read       == target.content
        cssContent == IF Includes(read, PATCH_START)
                      THEN removePatchContent(read) ELSE read
        classMap   == extractClassMap(cssContent)
    IN  IF "message" \notin DOMAIN classMap
        THEN Ended("applyPatch", "returned", "resolve", target, backup, << >>)
        ELSE
          LET rtlCss         == generateRtlCss(classMap)
              patchedContent == cssContent \o <<nl>> \o rtlCss
              targetWrite    == << Write("target", patchedContent) >>
              backupWrite    == IF backup.exists THEN << >>
                                ELSE << Write("backup", cssContent) >>
          IN  IF fault = "writeTarget"
              THEN Ended("applyPatch", "threw", "writeTarget",
                         FailedWrite(target, patchedContent, cut), backup,
                         targetWrite)
              ELSE IF fault = "writeBackup" /\ ~backup.exists
              THEN Ended("applyPatch", "threw", "writeBackup",
                         File(patchedContent),
                         FailedWrite(backup, cssContent, cut),
                         targetWrite \o backupWrite)
              ELSE Ended("applyPatch", "returned", "none",
                         File(patchedContent),
                         IF backup.exists THEN backup ELSE File(cssContent),
                         targetWrite \o backupWrite)

\* applyPatch, one file-system call after the other.
applyPatchFs(target, backup, fault, cut) ==
  IF ~target.exists
  THEN Ended("applyPatch", "returned", "exists", target, backup, << >>)
  ELSE IF fault = "read"
  THEN Ended("applyPatch", "threw", "read", target, backup, << >>)
  ELSE
    LET read       == target.content
        cssContent == IF Includes(read, PATCH_START)
                      THEN removePatchContent(read) ELSE read
        classMap   == extractClassMap(cssContent)
    IN  IF "message" \notin DOMAIN classMap
        THEN Ended("applyPatch", "returned", "resolve", target, backup, << >>)
        ELSE
          LET rtlCss         == generateRtlCss(classMap)
              patchedContent == cssContent \o <<nl>> \o rtlCss
              backupWrite    == IF backup.exists THEN << >>
                                ELSE << Write("backup", cssContent) >>
              targetWrite    == << Write("target", patchedContent) >>
          IN  IF fault = "writeBackup" /\ ~backup.exists
              THEN Ended("applyPatch", "threw", "writeBackup", target,
                         FailedWrite(backup, cssContent, cut), backupWrite)
              ELSE IF fault = "writeTarget"
              THEN Ended("applyPatch", "threw", "writeTarget",
                         FailedWrite(target, patchedContent, cut),
                         IF backup.exists THEN backup ELSE File(cssContent),
                         backupWrite \o targetWrite)
              ELSE Ended("applyPatch", "returned", "none",
                         File(patchedContent),
                         IF backup.exists THEN backup ELSE File(cssContent),
                         backupWrite \o targetWrite)

\* revertPatch, one file-system call after the other.
revertPatchFs(target, backup, fault, cut) ==
  IF ~target.exists
  THEN Ended("revertPatch", "returned", "exists", target, backup, << >>)
  ELSE IF fault = "read"
  THEN Ended("revertPatch", "threw", "read", target, backup, << >>)
  ELSE IF backup.exists
  THEN
    LET original == backup.content
    IN  IF fault = "writeTarget"
        THEN Ended("revertPatch", "threw", "writeTarget",
                   FailedWrite(target, original, cut), backup,
                   << Write("target", original) >>)
        ELSE IF fault = "unlink"
        THEN Ended("revertPatch", "threw", "unlink", File(original), backup,
                   << Write("target", original) >>)
        ELSE Ended("revertPatch", "returned", "none", File(original), Absent,
                   << Write("target", original) >>)
  ELSE IF Includes(target.content, PATCH_START)
  THEN
    LET cssContent == removePatchContent(target.content)
    IN  IF fault = "writeTarget"
        THEN Ended("revertPatch", "threw", "writeTarget",
                   FailedWrite(target, cssContent, cut), backup,
                   << Write("target", cssContent) >>)
        ELSE Ended("revertPatch", "returned", "none", File(cssContent), backup,
                   << Write("target", cssContent) >>)
  ELSE Ended("revertPatch", "returned", "nothing", target, backup, << >>)

\* checkPatch, one file-system call after the other; it succeeds when the
\* start marker is found.
checkPatchFs(target, backup, fault) ==
  IF ~target.exists
  THEN Ended("checkPatch", "returned", "exists", target, backup, << >>)
  ELSE IF fault = "read"
  THEN Ended("checkPatch", "threw", "read", target, backup, << >>)
  ELSE IF Includes(target.content, PATCH_START)
  THEN Ended("checkPatch", "returned", "none", target, backup, << >>)
  ELSE Ended("checkPatch", "returned", "unpatched", target, backup, << >>)

---------------------------------------------------------------------------
(* The callers that loop over the discovered stylesheets *)

MaxFiles == 2

\* The CLI in its three modes, the activation of the editor extension, its
\* watcher of extension changes, and its two commands.
MainModes == { "main", "main --revert", "main --check" }

\* The stylesheets a caller can discover, each with its backup: fresh,
\* without the mandatory class, missing, patched, and patched with the
\* backup deleted.
InstalledFiles ==
  LET fresh   == File(Rule("message", "A"))
      patched == applyPatch(fresh, Absent)
  IN  { [target |-> fresh, backup |-> Absent],
        [target |-> File(Rule("userMessage", "B")), backup |-> Absent],
        [target |-> Absent, backup |-> Absent],
        [target |-> patched.target, backup |-> patched.backup],
        [target |-> patched.target, backup |-> Absent] }

\* The calls one pass of the caller's loop makes on one stylesheet.
Iteration(caller, file, fault, cut) ==
  IF caller \in {"main", "patchNow"}
  THEN << applyPatchFs(file.target, file.backup, fault, cut) >>
  ELSE IF caller \in {"main --revert", "revert"}
  THEN << revertPatchFs(file.target, file.backup, fault, cut) >>
  ELSE IF caller = "main --check"
  THEN << checkPatchFs(file.target, file.backup, fault) >>
  ELSE \* activate, onDidChange:  if (!checkPatch(cssPath)) applyPatch(cssPath)
    LET checked == checkPatchFs(file.target, file.backup, fault)
    IN  IF checked.outcome = "threw" \/ checked.success
        THEN << checked >>
        ELSE << checked,
                applyPatchFs(file.target, file.backup, fault, cut) >>

\* The last call of a pass.
LastCall(calls) == calls[Len(calls)]

\* for (... of targets): the passes made from the i-th stylesheet on.  An
\* exception leaves the loop; the file-system call named by fault throws
\* in the pass of stylesheet failAt.
RECURSIVE Loop(_, _, _, _, _, _)
Loop(caller, files, i, failAt, fault, cut) ==
  IF i > Len(files) THEN << >>
  ELSE LET calls == Iteration(caller, files[i],
                              IF i = failAt THEN fault ELSE "none", cut)
       IN  IF LastCall(calls).outcome = "threw"
           THEN << calls >>
           ELSE << calls >> \o Loop(caller, files, i + 1, failAt, fault, cut)

\* What a caller has done when it is over: the passes it made, the exit
\* status of the process (of the CLI), and the stylesheets whose success
\* was followed by the offer to reload.
Finished(caller, files, iterations) ==
  LET threw      == /\ Len(iterations) > 0
                    /\ LastCall(iterations[Len(iterations)]).outcome = "threw"
      succeeded  == { i \in 1..Len(iterations) :
                        LastCall(iterations[i]).success }
      anySuccess == succeeded # {}
  IN  [pc         |-> "done",
       caller     |-> caller,
       files      |-> files,
       iterations |-> iterations,
       exit       |-> IF caller \notin MainModes THEN "none"
                      ELSE IF Len(files) = 0 THEN 1    \* process.exit(1)
                      ELSE IF threw THEN 1             \* uncaught exception
                      ELSE IF anySuccess THEN 0 ELSE 1,
       reloads    |-> IF caller \in {"activate", "onDidChange"}
                      THEN { i \in succeeded :
                               LastCall(iterations[i]).op = "applyPatch" }
                      ELSE IF caller \in {"patchNow", "revert"} /\ ~threw
                      THEN succeeded
                      ELSE {}]

---------------------------------------------------------------------------
(* State *)

VARIABLES
  target,     \* the stylesheet at cssFilePath
  backup,     \* the file at cssFilePath + ".rtl-backup"
  pristine,   \* the stylesheet as it is without any patch of ours
  last,       \* the most recent step: what ran, what it returned, the files before
  prev,       \* the step before that: what ran and whether it succeeded
  prev2,      \* and the one before
  run         \* a caller looping over the discovered stylesheets

vars == <<target, backup, pristine, last, prev, prev2, run>>

\* No caller is looping.
NoRun == [pc |-> "idle"]

NoFiles == [target |-> Absent, backup |-> Absent]

\* What is kept of an older step.
Brief(step) == [op |-> step.op, success |-> step.success]

\* No step yet.
NoStep == [op |-> "none", success |-> FALSE, result |-> << >>, before |-> NoFiles]

\* A call returns: the history moves on by one step.
Returned(op, success, result) ==
  /\ last' = [op |-> op, success |-> success, result |-> result,
              before |-> [target |-> target, backup |-> backup]]
  /\ prev' = Brief(last)
  /\ prev2' = prev
  /\ UNCHANGED run

\* The host rewrote the stylesheet: what was called before is history.
Rewritten(op) ==
  /\ last' = [op |-> op, success |-> TRUE, result |-> << >>, before |-> NoFiles]
  /\ prev' = Brief(NoStep)
  /\ prev2' = Brief(NoStep)
  /\ UNCHANGED run

Init ==
  /\ target \in {Absent} \cup {File(c) : c \in HostContents}
  /\ backup = Absent
  /\ pristine = target
  /\ last = NoStep
  /\ prev = Brief(NoStep)
  /\ prev2 = Brief(NoStep)
  /\ run = NoRun

---------------------------------------------------------------------------
(* Calls of the three operations *)

ApplyPatch ==
  LET r == applyPatch(target, backup)
  IN  /\ target' = r.target
      /\ backup' = r.backup
      /\ UNCHANGED pristine
      /\ Returned("applyPatch", r.success,
                  [error |-> r.error, classMap |-> r.classMap])

RevertPatch ==
  LET r == revertPatch(target, backup)
  IN  /\ target' = r.target
      /\ backup' = r.backup
      /\ pristine' = IF r.success THEN r.target ELSE pristine
      /\ Returned("revertPatch", r.success,
                  [error |-> r.error, method |-> r.method])

CheckPatch ==
  /\ UNCHANGED <<target, backup, pristine>>
  /\ Returned("checkPatch", TRUE, [patched |-> checkPatch(target)])

---------------------------------------------------------------------------
(* The environment: the host that owns the stylesheet, and the user *)

\* The host installs or upgrades the stylesheet: fs.writeFileSync(cssFile, c).
HostWrite ==
  \E c \in HostContents :
    /\ target' = File(c)
    /\ pristine' = File(c)
    /\ UNCHANGED backup
    /\ Rewritten("hostWrite")

\* The host's own part of a patched stylesheet changes (an upgrade that
\* changes hashes) while the fragment stays where applyPatch put it.
HostChange ==
  \E c \in HostContents :
    /\ target.exists
    /\ Includes(target.content, PATCH_START)
    /\ Includes(target.content, PATCH_END)
    /\ LET startIdx == IndexOf(target.content, PATCH_START)
           endIdx   == IndexOf(target.content, PATCH_END)
       IN  target' = File(c \o <<nl>> \o SubSeq(target.content, startIdx, endIdx))
    /\ pristine' = File(c)
    /\ UNCHANGED backup
    /\ Rewritten("hostChange")

\* The extension directory is removed: fs.rmSync(dir, {recursive: true}).
HostRemove ==
  /\ target.exists
  /\ target' = Absent
  /\ backup' = Absent
  /\ pristine' = Absent
  /\ Rewritten("hostRemove")

\* The backup is deleted from outside: fs.unlinkSync(cssFile + ".rtl-backup").
UnlinkBackup ==
  /\ backup.exists
  /\ backup' = Absent
  /\ UNCHANGED <<target, pristine>>
  /\ last' = [op |-> "unlinkBackup", success |-> TRUE, result |-> << >>,
              before |-> NoFiles]
  /\ prev' = Brief(last)
  /\ prev2' = prev
  /\ UNCHANGED run

Next ==
  \/ ApplyPatch
  \/ RevertPatch
  \/ CheckPatch
  \/ HostWrite
  \/ HostChange
  \/ HostRemove
  \/ UnlinkBackup

Spec == Init /\ [][Next]_vars

---------------------------------------------------------------------------
(* Shorthands for the claims *)

HasStart(file) == file.exists /\ Includes(file.content, PATCH_START)

HasEnd(file) == file.exists /\ Includes(file.content, PATCH_END)

StartCount(file) == IF file.exists THEN Count(file.content, PATCH_START) ELSE 0

\* The content applyPatch resolves the mapping from: the file's content
\* with an existing fragment excised.
FragmentFree(file) ==
  IF Includes(file.content, PATCH_START)
  THEN removePatchContent(file.content) ELSE file.content

\* The mandatory key resolves.
Resolvable(content) == "message" \in DOMAIN extractClassMap(content)

Called(op) == last.op = op

Succeeded(op) == last.op = op /\ last.success

---------------------------------------------------------------------------
(* C1 *)

\* C1: in every reachable state the target holds at most one start marker,
\* and right after a successful applyPatch (so after any number >= 1 of
\* consecutive successful ones) it holds exactly one.
C1_AtMostOneFragment ==
  /\ StartCount(target) <= 1
  /\ Succeeded("applyPatch") => StartCount(target) = 1

\* A second successful applyPatch in a row has just returned.
C1_Witness ==
  /\ Succeeded("applyPatch")
  /\ prev.op = "applyPatch" /\ prev.success
  /\ HasStart(last.before.target)
  /\ StartCount(target) = 1

---------------------------------------------------------------------------
(* C2 *)

\* C2: for unpatched content C whose mandatory key resolves, excising the
\* fragment from C + "\n" + generateRtlCss(extractClassMap(C)) gives back C
\* exactly, also when C ends with newlines.  C is the marker-free content a
\* successful applyPatch has just read.
C2_RoundTrip ==
  (Succeeded("applyPatch") /\ ~HasStart(last.before.target)) =>
    LET C == last.before.target.content
    IN  removePatchContent(C \o <<nl>> \o generateRtlCss(extractClassMap(C))) = C

---------------------------------------------------------------------------
(* C3 *)

\* A revertPatch call right after a successful applyPatch.
RevertAfterApply == Succeeded("applyPatch") /\ last'.op = "revertPatch"

\* C3 as stated: revertPatch after a successful applyPatch succeeds, leaves
\* the target as it was immediately before that applyPatch, and leaves no
\* backup.
C3_RevertRestoresPreApply ==
  [][RevertAfterApply =>
       /\ last'.success
       /\ target' = last.before.target
       /\ ~backup'.exists]_vars

\* C3 amended: revertPatch after a successful applyPatch succeeds, leaves no
\* backup, and leaves the target byte-identical to what the backup held;
\* that is the content before the applyPatch whenever the target then held
\* no fragment and no backup existed.
C3_RevertRestoresBackup ==
  [][RevertAfterApply =>
       /\ last'.success
       /\ ~backup'.exists
       /\ backup.exists
       /\ target' = backup
       /\ (~last.before.backup.exists /\ ~HasStart(last.before.target))
            => target' = last.before.target]_vars

\* The host wrote the stylesheet, applyPatch succeeded on it with no backup
\* around, and revertPatch has restored it.
C3_Witness ==
  /\ Succeeded("revertPatch")
  /\ prev.op = "applyPatch" /\ prev.success
  /\ prev2.op = "hostWrite"
  /\ last.result.method = "backup"
  /\ HasStart(last.before.target)
  /\ last.before.backup = target
  /\ ~backup.exists

---------------------------------------------------------------------------
(* C4 *)

\* C4: a second applyPatch right after a successful one leaves target and
\* backup byte-identical to what the first call left.
C4_ApplyTwiceSameFiles ==
  (Called("applyPatch") /\ prev.op = "applyPatch" /\ prev.success) =>
    /\ target = last.before.target
    /\ backup = last.before.backup

---------------------------------------------------------------------------
(* C5 *)

\* C5: applyPatch fails when the path does not exist (not found) or the
\* mandatory key does not resolve from the fragment-free content
\* (unrecognized format); a failing applyPatch leaves the target as it was,
\* fragment included, and neither creates nor changes a backup.
C5_FailedApplyNoEffect ==
  Called("applyPatch") =>
    LET t == last.before.target
    IN  /\ ~t.exists =>
             ~last.success /\ last.result.error = "CSS file not found"
        /\ (t.exists /\ ~Resolvable(FragmentFree(t))) =>
             /\ ~last.success
             /\ last.result.error = "Could not extract CSS class names"
        /\ (t.exists /\ Resolvable(FragmentFree(t))) => last.success
        /\ ~last.success =>
             target = t /\ backup = last.before.backup

\* applyPatch has failed on a target holding a fragment, which it excised
\* in memory only.
C5_Witness ==
  /\ Called("applyPatch") /\ ~last.success
  /\ HasStart(last.before.target)
  /\ target = last.before.target
  /\ FragmentFree(target) # target.content

---------------------------------------------------------------------------
(* C6 *)

\* C6: whenever applyPatch creates the backup, the backup is a byte-for-byte
\* copy of the stylesheet as it is without any patch of ours, also when the
\* target already holds a fragment and when the original ends with newlines.
C6_BackupIsOriginal ==
  (Succeeded("applyPatch") /\ ~last.before.backup.exists) =>
    /\ backup.exists
    /\ backup = pristine

---------------------------------------------------------------------------
(* C7 *)

\* C7: a call made while a backup exists leaves the backup's content as it
\* is; only a successful revertPatch removes it.
C7_BackupNeverOverwritten ==
  (last.op \in {"applyPatch", "revertPatch", "checkPatch"}
     /\ last.before.backup.exists) =>
    \/ backup = last.before.backup
    \/ Succeeded("revertPatch") /\ ~backup.exists

\* applyPatch has succeeded while a backup of another build's stylesheet
\* existed.
C7_Witness ==
  /\ Succeeded("applyPatch")
  /\ last.before.backup.exists
  /\ extractClassMap(last.before.backup.content) # last.result.classMap
  /\ backup = last.before.backup

---------------------------------------------------------------------------
(* C8 *)

\* C8: on an existing target revertPatch restores from the backup whenever
\* one exists (and deletes it), whether or not the target holds a fragment;
\* strips the fragment in place only when there is no backup and the target
\* holds the markers; and fails with nothing to revert otherwise.
C8_RevertPrecedence ==
  (Called("revertPatch") /\ last.before.target.exists) =>
    LET t == last.before.target
        b == last.before.backup
    IN  IF b.exists
        THEN /\ last.success /\ last.result.method = "backup"
             /\ target = b
             /\ ~backup.exists
        ELSE IF HasStart(t) /\ HasEnd(t)
        THEN /\ last.success /\ last.result.method = "strip"
             /\ target = File(removePatchContent(t.content))
             /\ ~HasStart(target) /\ ~HasEnd(target)
             /\ ~backup.exists
        ELSE /\ ~last.success
             /\ last.result.error = "No patch found to revert"

\* revertPatch has restored from the backup a target that held no fragment.
C8_Witness ==
  /\ Succeeded("revertPatch")
  /\ last.result.method = "backup"
  /\ last.before.target.exists
  /\ ~HasStart(last.before.target)
  /\ target = last.before.backup
  /\ target # last.before.target

---------------------------------------------------------------------------
(* C9 *)

\* C9: after a successful applyPatch and the deletion of the backup from
\* outside, revertPatch succeeds by stripping and the target holds neither
\* marker.
C9_RevertViaStrip ==
  (Called("revertPatch") /\ prev.op = "unlinkBackup"
     /\ prev2.op = "applyPatch" /\ prev2.success) =>
    /\ last.success
    /\ last.result.method = "strip"
    /\ ~HasStart(target) /\ ~HasEnd(target)

\* applyPatch, deletion of the backup, revertPatch: the fragment is gone.
C9_Witness ==
  /\ Succeeded("revertPatch")
  /\ prev.op = "unlinkBackup"
  /\ prev2.op = "applyPatch" /\ prev2.success
  /\ HasStart(last.before.target) /\ HasEnd(last.before.target)
  /\ ~HasStart(target)

---------------------------------------------------------------------------
(* C10 *)

\* C10: revertPatch fails when the path does not exist, and when there is no
\* backup and the target holds no fragment; a failing revertPatch changes
\* neither the target nor the backup.
C10_FailedRevertNoEffect ==
  Called("revertPatch") =>
    LET t == last.before.target
        b == last.before.backup
    IN  /\ (~t.exists \/ (~b.exists /\ ~HasStart(t))) => ~last.success
        /\ ~last.success => target = t /\ backup = b

\* revertPatch has failed on an existing, unpatched target without backup.
C10_Witness ==
  /\ Called("revertPatch") /\ ~last.success
  /\ last.result.error = "No patch found to revert"
  /\ target.exists
  /\ target = last.before.target
  /\ ~backup.exists

---------------------------------------------------------------------------
(* C11 *)

\* C11: checkPatch returns true exactly when the target exists and its
\* content holds the start marker, and it leaves the target and the backup,
\* existence and content, as they were.
C11_CheckPatchReadsOnly ==
  Called("checkPatch") =>
    LET t == last.before.target
    IN  /\ last.result.patched <=>
             (t.exists /\ \E i \in 1..Len(t.content) : t.content[i] = PATCH_START)
        /\ target = t
        /\ backup = last.before.backup

\* checkPatch has answered false for an existing, unpatched target whose
\* backup exists.
C11_Witness ==
  /\ Called("checkPatch")
  /\ ~last.result.patched
  /\ target.exists
  /\ backup.exists
  /\ target = last.before.target
  /\ backup = last.before.backup

---------------------------------------------------------------------------
(* The functions called on their own, as the unit tests call them: one call
   from the initial state, its argument drawn from a bounded set. *)

FunctionsInit ==
  /\ target = Absent
  /\ backup = Absent
  /\ pristine = Absent
  /\ last = NoStep
  /\ prev = Brief(NoStep)
  /\ prev2 = Brief(NoStep)
  /\ run = NoRun

\* A function has returned.
FunctionReturned(op, result) ==
  /\ last = NoStep
  /\ last' = [op |-> op, success |-> TRUE, result |-> result, before |-> NoFiles]
  /\ UNCHANGED <<target, backup, pristine, prev, prev2, run>>

\* Pieces of the stylesheets handed to the resolver: classes of a key and of
\* a longer key starting with it, text that starts with a boundary character
\* and text that does not.
ResolverAlphabet ==
  { Cls("message", "X"), Cls("message", "Y"), Cls("messagesContainer", "Y"),
    Txt("{", "color:red}"), Txt("-", "dark") }

ResolverInputs == SeqsUpTo(ResolverAlphabet, MaxTokens)

CallExtractClassMap ==
  \E cssContent \in ResolverInputs :
    FunctionReturned("extractClassMap",
                     [cssContent |-> cssContent,
                      classMap |-> extractClassMap(cssContent)])

---------------------------------------------------------------------------
(* C12 *)

\* A class named exactly key, with that hash, stands at position i.
ClassAt(cssContent, key, hash, i) == cssContent[i] = <<"cls", key, hash>>

\* C12: extractClassMap maps a key only to the hash of a class whose name is
\* exactly the key, never to that of a class whose name merely starts with
\* the key; for content holding .message_X{...} and .messagesContainer_Y{...}
\* in either order the mapping has message = X and messagesContainer = Y.
C12_ResolverBoundary ==
  Called("extractClassMap") =>
    LET c == last.result.cssContent
        m == last.result.classMap
        both == { Rule("message", "X") \o Rule("messagesContainer", "Y"),
                  Rule("messagesContainer", "Y") \o Rule("message", "X") }
    IN  /\ \A K \in DOMAIN m :
             \E i \in 1..Len(c) : ClassAt(c, K, m[K], i)
        /\ c \in both =>
             /\ DOMAIN m = {"message", "messagesContainer"}
             /\ m["message"] = "X"
             /\ m["messagesContainer"] = "Y"

\* The resolver has read .messagesContainer_Y{...}.message_X{...}.
C12_Witness ==
  /\ Called("extractClassMap")
  /\ last.result.cssContent =
       Rule("messagesContainer", "Y") \o Rule("message", "X")
  /\ last.result.classMap["message"] = "X"
  /\ last.result.classMap["messagesContainer"] = "Y"

---------------------------------------------------------------------------
(* C13 *)

\* .key_hash stands at position i and a boundary character follows it.
OccursAt(cssContent, key, i) ==
  /\ cssContent[i][1] = "cls"
  /\ cssContent[i][2] = key
  /\ i + 1 <= Len(cssContent)
  /\ FirstChar(cssContent[i+1]) \in {" ", "\n", "\t", "{", ".", ",", ":", "[", ">", "~", "+"}

\* C13: each key of the fixed list is resolved on its own, from the first
\* occurrence of .key_hash that a boundary character follows; a key without
\* such an occurrence is absent from the mapping.
C13_FirstOccurrencePerKey ==
  Called("extractClassMap") =>
    LET c == last.result.cssContent
        m == last.result.classMap
    IN  \A k \in 1..Len(patterns) :
          LET key == patterns[k]
              occ == {i \in 1..Len(c) : OccursAt(c, key, i)}
          IN  IF occ = {}
              THEN key \notin DOMAIN m
              ELSE /\ key \in DOMAIN m
                   /\ \E i \in occ :
                        /\ \A j \in occ : i <= j
                        /\ m[key] = c[i][3]

\* message occurs three times with two hashes, the first time without a
\* boundary after it: the mapping has the hash of the first occurrence that
\* a boundary follows, and no other key.
C13_Witness ==
  /\ Called("extractClassMap")
  /\ \E c \in { last.result.cssContent } :
       /\ Len(c) = 4
       /\ c[1] = Cls("message", "Y") /\ c[2] = Txt("-", "dark")
       /\ c[3] = Cls("message", "X") /\ c[4] = Cls("message", "Y")
  /\ DOMAIN last.result.classMap = {"message"}
  /\ last.result.classMap["message"] = "X"

---------------------------------------------------------------------------
(* Synthesis called on its own *)

\* The keys generateRtlCss writes a selector for.
SelectorKeys ==
  { "message", "userMessage", "userMessageContainer", "timelineMessage",
    "slashCommandMessage", "slashCommandResultMessage", "interruptedMessage",
    "progressContent" }

\* The hashes of the unit tests' mappings.
TestHashes == { "XYZ999", "Abc123" }

\* The mappings handed to the synthesis: any of its keys, each with a hash.
ClassMaps == UNION { [keys -> TestHashes] : keys \in SUBSET SelectorKeys }

CallGenerateRtlCss ==
  \E classMap \in ClassMaps :
    FunctionReturned("generateRtlCss",
                     [classMap |-> classMap, css |-> generateRtlCss(classMap)])

\* The selectors of a key in a fragment.
SelectorsOf(css, key) ==
  { css[i] : i \in {j \in 1..Len(css) :
                      css[j][1] \in {"cls", "attr"} /\ css[j][2] = key} }

---------------------------------------------------------------------------
(* C14 *)

\* C14: for every key generateRtlCss writes a selector for, every occurrence
\* of the key's selector in the fragment is the class selector .key_hash
\* when the mapping holds a hash for the key and the attribute selector
\* [class*="key_"] when it does not; never both in one fragment.
C14_SelectorFallback ==
  Called("generateRtlCss") =>
    LET m   == last.result.classMap
        css == last.result.css
    IN  \A key \in { "message", "userMessage", "userMessageContainer",
                     "timelineMessage", "slashCommandMessage",
                     "slashCommandResultMessage", "interruptedMessage",
                     "progressContent" } :
          SelectorsOf(css, key) =
            IF key \in DOMAIN m THEN { <<"cls", key, m[key]>> }
                                ELSE { <<"attr", key>> }

\* A fragment has been made from a mapping that holds message and
\* timelineMessage with different hashes and lacks userMessage.
C14_Witness ==
  /\ Called("generateRtlCss")
  /\ DOMAIN last.result.classMap = {"message", "timelineMessage"}
  /\ last.result.classMap["message"] = "XYZ999"
  /\ last.result.classMap["timelineMessage"] = "Abc123"
  /\ Includes(last.result.css, Cls("timelineMessage", "Abc123"))
  /\ Includes(last.result.css, Attr("userMessage"))

---------------------------------------------------------------------------
(* C15 *)

\* The mapping of the unit test: only message, with hash XYZ999.
OnlyMessage == [key \in {"message"} |-> "XYZ999"]

\* C15 as stated: the fragment made from the mapping {message: "XYZ999"}
\* holds .message_XYZ999 and, for every other key of the resolver's fixed
\* list, at least one attribute selector [class*="key_"].
C15_FallbackForEveryResolverKey ==
  (Called("generateRtlCss") /\ last.result.classMap = OnlyMessage) =>
    /\ Includes(last.result.css, Cls("message", "XYZ999"))
    /\ \A key \in Range(patterns) \ {"message"} :
         Includes(last.result.css, Attr(key))

\* C15 amended: the fragment made from the mapping {message: "XYZ999"}
\* holds .message_XYZ999 and, for every other key that generateRtlCss writes
\* a selector for (userMessage, userMessageContainer, timelineMessage,
\* slashCommandMessage, slashCommandResultMessage, interruptedMessage,
\* progressContent), at least one attribute selector [class*="key_"]; the
\* other keys of the resolver's list have no selector in the fragment.
C15_FallbackForEverySelectorKey ==
  (Called("generateRtlCss") /\ last.result.classMap = OnlyMessage) =>
    /\ Includes(last.result.css, Cls("message", "XYZ999"))
    /\ \A key \in { "userMessage", "userMessageContainer", "timelineMessage",
                    "slashCommandMessage", "slashCommandResultMessage",
                    "interruptedMessage", "progressContent" } :
         Includes(last.result.css, Attr(key))
    /\ \A key \in { "messagesContainer", "chatContainer", "emptyStateContent",
                    "emptyStateText", "highlightedMessage", "metaMessage" } :
         SelectorsOf(last.result.css, key) = {}

\* The fragment of the mapping {message: "XYZ999"} has been made.
C15_Witness ==
  /\ Called("generateRtlCss")
  /\ last.result.classMap = OnlyMessage
  /\ Includes(last.result.css, Cls("message", "XYZ999"))
  /\ Includes(last.result.css, Attr("userMessage"))
  /\ ~Includes(last.result.css, Attr("chatContainer"))

---------------------------------------------------------------------------
(* Excision called on its own *)

\* The start marker's text cut in two: StartHead directly followed by
\* StartTail spells PATCH_START.
StartHead == <<"part", "startHead">>
StartTail == <<"part", "startTail">>

\* The content contains the start marker's text / the end marker's text.
SpellsStart(s) ==
  \/ \E i \in 1..Len(s) : s[i] = PATCH_START
  \/ \E i \in 1..(Len(s) - 1) : s[i] = StartHead /\ s[i+1] = StartTail

SpellsEnd(s) == \E i \in 1..Len(s) : s[i] = PATCH_END

\* What the contents handed to the excision are made of.
ExcisionAlphabet ==
  { PATCH_START, PATCH_END, nl, Txt("b", "ody{color:red}"),
    StartHead, StartTail }

\* Contents of up to MaxTokens tokens; a start marker is always written as
\* the token PATCH_START, never as its two halves side by side.
ExcisionInputs ==
  { s \in SeqsUpTo(ExcisionAlphabet, MaxTokens) :
      \A i \in 1..(Len(s) - 1) : ~(s[i] = StartHead /\ s[i+1] = StartTail) }

CallRemovePatchContent ==
  \E cssContent \in ExcisionInputs :
    FunctionReturned("removePatchContent",
                     [cssContent |-> cssContent,
                      result     |-> removePatchContent(cssContent)])

---------------------------------------------------------------------------
(* C20 *)

\* C20 as stated: for any content that contains both markers,
\* removePatchContent returns content that contains neither marker; for any
\* content in which either marker is missing it returns the content
\* unchanged.
C20_ExcisionRemovesMarkers ==
  Called("removePatchContent") =>
    LET c == last.result.cssContent
        r == last.result.result
    IN  IF SpellsStart(c) /\ SpellsEnd(c)
        THEN ~SpellsStart(r) /\ ~SpellsEnd(r)
        ELSE r = c

\* The content holds one fragment: its first start marker precedes its first
\* end marker, no marker follows that end marker, and the text before the
\* start marker, less its trailing newlines, does not end with a part of a
\* marker that the text after the end marker completes.
OneFragment(c) ==
  LET isStart == {i \in 1..Len(c) : c[i] = PATCH_START}
      isEnd   == {i \in 1..Len(c) : c[i] = PATCH_END}
  IN  /\ isStart # {} /\ isEnd # {}
      /\ \E s \in isStart, e \in isEnd :
           /\ \A i \in isStart \cup isEnd : s <= i
           /\ \A i \in isEnd : e <= i
           /\ \A i \in isStart \cup isEnd : i <= e
           /\ LET kept == {i \in 1..(s-1) : c[i] # nl}
              IN  ~(/\ kept # {}
                    /\ e < Len(c)
                    /\ c[CHOOSE i \in kept : \A k \in kept : k <= i] = StartHead
                    /\ c[e+1] = StartTail)

\* C20 amended: for any content that holds one fragment (OneFragment),
\* removePatchContent returns content that contains neither marker; for any
\* content in which either marker is missing it returns the content
\* unchanged.
C20_ExcisionRemovesOneFragment ==
  Called("removePatchContent") =>
    LET c == last.result.cssContent
        r == last.result.result
    IN  /\ OneFragment(c) => ~SpellsStart(r) /\ ~SpellsEnd(r)
        /\ ~(SpellsStart(c) /\ SpellsEnd(c)) => r = c

\* The excision has cut the one fragment of a content with text and a
\* newline before it.
C20_Witness ==
  /\ Called("removePatchContent")
  /\ last.result.cssContent =
       << Txt("b", "ody{color:red}"), nl, PATCH_START, PATCH_END >>
  /\ last.result.result = << Txt("b", "ody{color:red}") >>

NextFunctions ==
  \/ CallExtractClassMap
  \/ CallGenerateRtlCss
  \/ CallRemovePatchContent

SpecFunctions == FunctionsInit /\ [][NextFunctions]_vars

---------------------------------------------------------------------------
(* Re-patching after an upgrade of the host *)

MaxUpgradeRules == 2

\* The stylesheets of the build that is installed first: up to
\* MaxUpgradeRules rules and an ending.
UpgradeContents ==
  { Concat(rules) \o ending :
      rules \in SeqsUpTo(HostRules, MaxUpgradeRules), ending \in HostEndings }

\* The extension is installed and its stylesheet has not been touched.
UpgradeInit ==
  /\ target \in {File(c) : c \in UpgradeContents}
  /\ backup = Absent
  /\ pristine = target
  /\ last = NoStep
  /\ prev = Brief(NoStep)
  /\ prev2 = Brief(NoStep)
  /\ run = NoRun

\* The stylesheet is patched, the host upgrades it under the fragment, and
\* it is patched again.
NextUpgrade ==
  \/ ApplyPatch
  \/ HostChange

SpecUpgrade == UpgradeInit /\ [][NextUpgrade]_vars

\* The text of a patched content outside its fragment, and its fragment.
OutsideFragment(c) ==
  SubSeq(c, 1, IndexOf(c, PATCH_START) - 1)
    \o SubSeq(c, IndexOf(c, PATCH_END) + 1, Len(c))

InsideFragment(c) == SubSeq(c, IndexOf(c, PATCH_START), IndexOf(c, PATCH_END))

---------------------------------------------------------------------------
(* C19 *)

\* C19: when applyPatch succeeds on a target that already held a fragment,
\* every hash of the returned mapping and every class selector of the newly
\* written fragment is that of a class in the content outside the old
\* fragment, and a key with no class outside the old fragment has only the
\* attribute selector in the new fragment.
C19_ExciseBeforeResolve ==
  (Succeeded("applyPatch") /\ HasStart(last.before.target)
                           /\ HasEnd(last.before.target)) =>
    LET out  == OutsideFragment(last.before.target.content)
        m    == last.result.classMap
        frag == InsideFragment(target.content)
    IN  /\ \A key \in DOMAIN m :
             \E i \in 1..Len(out) : out[i] = <<"cls", key, m[key]>>
        /\ \A i \in 1..Len(frag) :
             frag[i][1] = "cls" => \E j \in 1..Len(out) : out[j] = frag[i]
        /\ \A key \in { "message", "userMessage", "userMessageContainer",
                        "timelineMessage", "slashCommandMessage",
                        "slashCommandResultMessage", "interruptedMessage",
                        "progressContent" } :
             (\A j \in 1..Len(out) : ~(out[j][1] = "cls" /\ out[j][2] = key))
               => SelectorsOf(frag, key) = { <<"attr", key>> }

\* applyPatch has succeeded on a target whose old fragment was made for
\* .message_A and .userMessage_B and whose upgraded content holds
\* .message_B only: the new fragment uses .message_B and the attribute
\* selector of userMessage.
C19_Witness ==
  /\ Succeeded("applyPatch")
  /\ HasStart(last.before.target)
  /\ LET old == InsideFragment(last.before.target.content)
         out == OutsideFragment(last.before.target.content)
         new == InsideFragment(target.content)
     IN  /\ Includes(old, Cls("message", "A"))
         /\ Includes(old, Cls("userMessage", "B"))
         /\ Includes(out, Cls("message", "B"))
         /\ ~Includes(out, Cls("userMessage", "B"))
         /\ Includes(new, Cls("message", "B"))
         /\ ~Includes(new, Cls("message", "A"))
         /\ Includes(new, Attr("userMessage"))
         /\ ~Includes(new, Cls("userMessage", "B"))

---------------------------------------------------------------------------
(* Callers *)

CallersInit ==
  /\ target = Absent
  /\ backup = Absent
  /\ pristine = Absent
  /\ last = NoStep
  /\ prev = Brief(NoStep)
  /\ prev2 = Brief(NoStep)
  /\ run = NoRun

\* A caller runs from its start to its end over the stylesheets it
\* discovers.
Invoke(caller) ==
  /\ run = NoRun
  /\ \E files \in SeqsUpTo(InstalledFiles, MaxFiles), failAt \in 0..MaxFiles,
        fault \in Faults \ {"none"}, cut \in Cuts :
       run' = Finished(caller, files,
                       Loop(caller, files, 1, failAt, fault, cut))
  /\ UNCHANGED <<target, backup, pristine, last, prev, prev2>>

\* node patch-rtl.js [--revert | --check]
Main == \E mode \in MainModes : Invoke(mode)

\* activate(context): the auto-patch.
Activate == Invoke("activate")

\* The callback of vscode.extensions.onDidChange.
OnDidChange == Invoke("onDidChange")

\* The command claudeCodeRtlFix.patchNow.
PatchNow == Invoke("patchNow")

\* The command claudeCodeRtlFix.revert.
RevertCommand == Invoke("revert")

NextCallers ==
  \/ Main
  \/ Activate
  \/ OnDidChange
  \/ PatchNow
  \/ RevertCommand

SpecCallers == CallersInit /\ [][NextCallers]_vars

\* The caller is over.
Done == run.pc = "done"

---------------------------------------------------------------------------
(* C16 *)

\* C16: when a caller is over, it has made a pass on every stylesheet it
\* discovered, whatever failed on the way, and the CLI has exited with
\* status 0 exactly when the pass of at least one stylesheet succeeded.
C16_PartialSuccessTolerated ==
  Done =>
    /\ Len(run.iterations) = Len(run.files)
    /\ run.caller \in MainModes =>
         (run.exit = 0 <=>
            \E i \in 1..Len(run.iterations) :
              run.iterations[i][Len(run.iterations[i])].success)

---------------------------------------------------------------------------
(* C17 *)

\* C17: a call of applyPatch that fails before its write of the target
\* (no file, a read that throws, no mandatory class, a write of the backup
\* that throws) leaves the target as it was; in applyPatch the write of the
\* target is the last write issued; and every call of applyPatch or
\* revertPatch issues at most one write of the target, whose data is the
\* content the target has when the call succeeds.
C17_FailBeforeFinalWrite ==
  Done =>
    \A i \in 1..Len(run.iterations) :
      \A k \in 1..Len(run.iterations[i]) :
        LET c  == run.iterations[i][k]
            tw == { j \in 1..Len(c.writes) : c.writes[j].path = "target" }
        IN  /\ (c.op = "applyPatch" /\ c.failedAt \notin {"none", "writeTarget"})
                 => c.target = run.files[i].target
            /\ c.op = "applyPatch" => \A j \in tw : j = Len(c.writes)
            /\ Cardinality(tw) <= 1
            /\ (c.op \in {"applyPatch", "revertPatch"} /\ c.success)
                 => /\ tw # {}
                    /\ \A j \in tw : c.target = File(c.writes[j].data)

\* applyPatch has thrown while writing the backup of a fresh stylesheet:
\* part of the backup is on disk and the target is as it was.
C17_Witness ==
  /\ Done
  /\ \E i \in 1..Len(run.iterations) :
       LET c == run.iterations[i][Len(run.iterations[i])]
       IN  /\ c.op = "applyPatch"
           /\ c.outcome = "threw"
           /\ c.failedAt = "writeBackup"
           /\ c.backup.exists
           /\ ~run.files[i].backup.exists
           /\ c.writes = << [path |-> "backup",
                             data |-> run.files[i].target.content] >>
           /\ c.target = run.files[i].target

---------------------------------------------------------------------------
(* C18 *)

\* C18: when the activation or the watcher of extension changes is over,
\* applyPatch has been called on every stylesheet it discovered, those
\* that already hold a fragment included, and the reload has been offered
\* for exactly the stylesheets whose applyPatch succeeded.
C18_ReapplyOnEveryTarget ==
  (Done /\ run.caller \in {"activate", "onDidChange"}) =>
    /\ \A i \in 1..Len(run.files) :
         /\ i <= Len(run.iterations)
         /\ \E k \in 1..Len(run.iterations[i]) :
              run.iterations[i][k].op = "applyPatch"
    /\ \A i \in 1..Len(run.iterations) :
         i \in run.reloads <=>
           \E k \in 1..Len(run.iterations[i]) :
             /\ run.iterations[i][k].op = "applyPatch"
             /\ run.iterations[i][k].success

---------------------------------------------------------------------------
(* The three operations alone on a stylesheet nothing else touches *)

\* A stylesheet of the host without marker, and no backup.
OperationsInit ==
  /\ target \in {File(c) : c \in HostContents}
  /\ backup = Absent
  /\ pristine = target
  /\ last = NoStep
  /\ prev = Brief(NoStep)
  /\ prev2 = Brief(NoStep)
  /\ run = NoRun

NextOperations ==
  \/ ApplyPatch
  \/ RevertPatch
  \/ CheckPatch

SpecOperations == OperationsInit /\ [][NextOperations]_vars

---------------------------------------------------------------------------
(* C21 *)

\* C21: after any sequence of applyPatch, revertPatch and checkPatch calls
\* on a stylesheet that started without marker and without backup, the
\* backup exists exactly when the target holds the fragment, and the
\* backup's content is then the target's content with the fragment excised.
C21_BackupTracksFragment ==
  /\ backup.exists <=> HasStart(target)
  /\ backup.exists => backup.content = removePatchContent(target.content)

---------------------------------------------------------------------------
(* revertPatch and checkPatch on files of any content *)

MaxMarkers == 3

\* Contents of up to MaxMarkers pieces, each a marker or some text.
AnyContents ==
  SeqsUpTo({ PATCH_START, PATCH_END, Txt("b", "ody{color:red}") }, MaxMarkers)

\* The target and the backup hold anything, or are missing.
AnyFilesInit ==
  /\ target \in {Absent} \cup {File(c) : c \in AnyContents}
  /\ backup \in {Absent} \cup {File(c) : c \in AnyContents}
  /\ pristine = target
  /\ last = NoStep
  /\ prev = Brief(NoStep)
  /\ prev2 = Brief(NoStep)
  /\ run = NoRun

\* With the end marker before the start marker every excision repeats the
\* text between them, so the target grows without end; the calls stop once
\* it has outgrown what it started with.
StillSmall == target.exists => Len(target.content) <= MaxMarkers + 1

NextAnyFiles ==
  \/ StillSmall /\ RevertPatch
  \/ StillSmall /\ CheckPatch

SpecAnyFiles == AnyFilesInit /\ [][NextAnyFiles]_vars

\* The excision leaves no start marker in the content: its first start
\* marker precedes its first end marker, no start marker follows that end
\* marker, and the text before the start marker, less its trailing
\* newlines, does not end with a part of the start marker that the text
\* after the end marker completes.
StripsClean(c) ==
  LET isStart == {i \in 1..Len(c) : c[i] = PATCH_START}
      isEnd   == {i \in 1..Len(c) : c[i] = PATCH_END}
  IN  /\ isStart # {} /\ isEnd # {}
      /\ \E s \in isStart, e \in isEnd :
           /\ \A i \in isStart \cup isEnd : s <= i
           /\ \A i \in isEnd : e <= i
           /\ \A i \in isStart : i <= e
           /\ LET kept == {i \in 1..(s-1) : c[i] # nl}
              IN  ~(/\ kept # {}
                    /\ e < Len(c)
                    /\ c[CHOOSE i \in kept : \A k \in kept : k <= i] = StartHead
                    /\ c[e+1] = StartTail)

\* The files a revertPatch leaves unpatched: the backup, when there is one,
\* holds no start marker; the target, when there is no backup, is one the
\* excision leaves without start marker.
RevertsClean(files) ==
  IF files.backup.exists
  THEN ~Includes(files.backup.content, PATCH_START)
  ELSE StripsClean(files.target.content)

\* The next call finds nothing to revert: checkPatch says false and
\* revertPatch fails with "No patch found to revert".
NextCallFindsNoPatch ==
  /\ last'.op = "checkPatch" => ~last'.result.patched
  /\ last'.op = "revertPatch" =>
       ~last'.success /\ last'.result.error = "No patch found to revert"

\* A checkPatch that followed a successful revertPatch.
CheckedAfterRevert ==
  Called("checkPatch") /\ prev.op = "revertPatch" /\ prev.success

---------------------------------------------------------------------------
(* C22 *)

\* C22 as stated: after a successful revertPatch, whatever the target and
\* the backup held, a checkPatch that follows immediately returns false and
\* a second revertPatch, with or without that checkPatch in between, fails
\* with nothing to revert.
C22_RevertLeavesUnpatched ==
  [][(Succeeded("revertPatch") \/ CheckedAfterRevert)
       => NextCallFindsNoPatch]_vars

\* C22 amended: after a successful revertPatch on files that it leaves
\* unpatched (RevertsClean), a checkPatch that follows immediately returns
\* false and a second revertPatch fails with nothing to revert, also after
\* that checkPatch.
C22_CleanRevertLeavesUnpatched ==
  [][(\/ Succeeded("revertPatch") /\ RevertsClean(last.before)
      \/ CheckedAfterRevert /\ ~last.result.patched)
       => NextCallFindsNoPatch]_vars

\* revertPatch has succeeded, checkPatch has then answered false, and a
\* second revertPatch has failed with nothing to revert.
C22_Witness ==
  /\ prev2.op = "revertPatch" /\ prev2.success
  /\ prev.op = "checkPatch"
  /\ Called("revertPatch")
  /\ ~last.success
  /\ last.result.error = "No patch found to revert"
  /\ target.exists
  /\ ~backup.exists

====
